---- MODULE Spec2Model ----
(***************************************************************************)
(* Scheduled-run engine of the status-update mail agent: the in-process    *)
(* scheduler (src/src/scheduler.js), the schedule calculator               *)
(* (api/utils/scheduleUtils), the collection services it writes through    *)
(* and the HTTP routes that write the same records.                        *)
(*                                                                         *)
(* Time is in milliseconds since the start of model day 0 (a Thursday,     *)
(* like the Unix epoch).  The clock moves over a finite grid of instants.  *)
(* Every await of the source is a possible interleaving point: one action  *)
(* models the code between two awaits that touch shared records.           *)
(***************************************************************************)
EXTENDS Integers, Sequences, FiniteSets, TLC

\* ---------------------------------------------------------------- bounds
MaxDays == 0        \* the clock grid covers days FirstDay .. FirstDay + MaxDays
MaxPolls == 2       \* poll() invocations over one behaviour
MaxRuns == 3        \* summary_runs documents over one behaviour
MaxApiCalls == 3    \* run-hook, schedule and repository requests over one behaviour
MaxLifecycleCalls == 1 \* pause / resume / remove requests over one behaviour
MaxFaults == 1      \* rejected store calls over one behaviour
PlanMaxEmails == 1  \* subscription.limits.maxEmailsPerMonth of the tenant
MaxEdits == 1       \* schedule edits and reactivations beside a running scheduler
MaxBodyLen == 3     \* characters of a plain-text mail body
MaxLlmCalls == 2    \* calls of the AI service on its own
MaxStarts == 2      \* calls of startScheduler by a host that may call it again
MaxTicks == 3       \* poll() invocations under such a host

\* ------------------------------------------------------- program constants
POLL_INTERVAL_MS == 60000
MS_PER_MINUTE == 60 * 1000
MS_PER_HOUR == 60 * MS_PER_MINUTE
MS_PER_DAY == 24 * 60 * 60 * 1000
MINUTES_PER_DAY == 1440
HALF_DAY_MINUTES == 720
MaxAdjustAttempts == 3
maxRetries == 3
minRequestInterval == 2000
WeekdayProbes == 8
Null == 0 - 1       \* null / undefined date or id

\* ------------------------------------------------------------- time grid
FirstDay == 4
DayStart(d) == d * MS_PER_DAY
NineUTC == 9 * 60 * MS_PER_MINUTE
DayInstants == { NineUTC, NineUTC + MS_PER_MINUTE }
Instants == { DayStart(d) + o : d \in FirstDay..(FirstDay + MaxDays), o \in DayInstants }
T0 == DayStart(FirstDay) + NineUTC
CreatedAt == DayStart(FirstDay - 1) + NineUTC + MS_PER_MINUTE

\* ------------------------------------------------- schedule calculator
\* Intl.DateTimeFormat({timeZone: tz}): the zone's offset from UTC in minutes.
\* The zones with daylight saving change offset inside the modelled week: the
\* calendar places America/New_York's spring transition (02:00 EST becomes
\* 03:00 EDT, at 07:00 UTC) and Europe/London's autumn transition (02:00 BST
\* becomes 01:00 GMT, at 01:00 UTC) on the Sunday before FirstDay.
TransitionDay == FirstDay - 1
SpringForwardAt == DayStart(TransitionDay) + 7 * MS_PER_HOUR
FallBackAt == DayStart(TransitionDay) + MS_PER_HOUR

TzOffsetMinutes(tz, instant) ==
  CASE tz = "UTC" -> 0
    [] tz = "Asia/Kolkata" -> 330
    [] tz = "America/Phoenix" -> 0 - 420
    [] tz = "America/New_York" -> IF instant < SpringForwardAt THEN 0 - 300 ELSE 0 - 240
    [] tz = "Europe/London" -> IF instant < FallBackAt THEN 60 ELSE 0
    [] OTHER -> 0

LocalMs(instant, tz) == instant + TzOffsetMinutes(tz, instant) * MS_PER_MINUTE
\* the calendar day (dateFmt.format) and the wall-clock minute (timeFmt) in tz
LocalDay(instant, tz) == LocalMs(instant, tz) \div MS_PER_DAY
LocalMinuteOfDay(instant, tz) == (LocalMs(instant, tz) % MS_PER_DAY) \div MS_PER_MINUTE
\* weekday: 0 = Sunday; day 0 is a Thursday
Weekday(day) == (day + 4) % 7

\* d.setUTCHours(hours, minutes, 0, 0)
SetUTCHours(dateRef, hours, minutes) ==
  (dateRef \div MS_PER_DAY) * MS_PER_DAY + (hours * 60 + minutes) * MS_PER_MINUTE

RECURSIVE AdjustEstimate(_, _, _, _)
AdjustEstimate(estimate, wanted, tz, attempt) ==
  IF attempt >= MaxAdjustAttempts THEN estimate
  ELSE LET diffMinutes == wanted - LocalMinuteOfDay(estimate, tz)
           adj1 == IF diffMinutes > HALF_DAY_MINUTES
                     THEN diffMinutes - MINUTES_PER_DAY ELSE diffMinutes
           adj == IF adj1 < 0 - HALF_DAY_MINUTES THEN adj1 + MINUTES_PER_DAY ELSE adj1
       IN IF diffMinutes = 0 THEN estimate
          ELSE AdjustEstimate(estimate + adj * 60 * 1000, wanted, tz, attempt + 1)

\* variant of buildDateInTZ that takes the wall-clock time as UTC in every zone
buildDateAsUTC(dateRef, hours, minutes, tz) == SetUTCHours(dateRef, hours, minutes)

buildDateInTZ(dateRef, hours, minutes, tz) ==
  IF tz = "UTC" THEN SetUTCHours(dateRef, hours, minutes)
  ELSE LET estimate == LocalDay(dateRef, tz) * MS_PER_DAY
                         + (hours * 60 + minutes) * MS_PER_MINUTE
       IN AdjustEstimate(estimate, hours * 60 + minutes, tz, 0)

DefaultWeekdays == {1, 2, 3, 4, 5}

RECURSIVE NextWeekday(_, _, _, _, _, _)
NextWeekday(now, weekdays, hours, minutes, tz, i) ==
  IF i >= WeekdayProbes THEN Null
  ELSE LET candidate == buildDateInTZ(now + i * MS_PER_DAY, hours, minutes, tz)
           tzDay == Weekday(LocalDay(candidate, tz))
       IN IF tzDay \in weekdays /\ candidate > now THEN candidate
          ELSE NextWeekday(now, weekdays, hours, minutes, tz, i + 1)

\* variant of the daily rule that keeps today's time even when it has passed
DailyNextToday(now, hours, minutes, tz) == buildDateInTZ(now, hours, minutes, tz)

DailyNext(now, hours, minutes, tz) ==
  LET next == buildDateInTZ(now, hours, minutes, tz)
  IN IF next <= now THEN buildDateInTZ(now + MS_PER_DAY, hours, minutes, tz) ELSE next

FallbackNext(now, hours, minutes, tz) == buildDateInTZ(now + MS_PER_DAY, hours, minutes, tz)

calculateNextRunAt(schedule, now) ==
  LET hours == schedule.time.hours
      minutes == schedule.time.minutes
      tz == schedule.timezone
      weekdays == IF schedule.config.weekdays = {Null}
                    THEN DefaultWeekdays ELSE schedule.config.weekdays
      intervalDays == IF schedule.config.intervalDays \in {Null, 0}
                        THEN 1 ELSE schedule.config.intervalDays
      wk == NextWeekday(now, weekdays, hours, minutes, tz, 0)
  IN CASE schedule.type = "daily" -> DailyNext(now, hours, minutes, tz)
       [] schedule.type = "specific_weekdays" /\ wk # Null -> wk
       [] schedule.type \in {"fixed_interval", "interval_days"} ->
            buildDateInTZ(now + intervalDays * MS_PER_DAY, hours, minutes, tz)
       [] schedule.type = "one_time" /\ schedule.config.date # Null ->
            LET next == buildDateInTZ(schedule.config.date, hours, minutes, tz)
            IN IF next > now THEN next ELSE Null
       [] schedule.type = "one_time" /\ schedule.config.date = Null ->
            DailyNext(now, hours, minutes, tz)
       [] OTHER -> FallbackNext(now, hours, minutes, tz)

\* ------------------------------------------------------------------ data
RepoIds == {1}           \* repositories documents (one tenant)
RepoOf(i) == 1           \* mc.repositoryId
Recipient == "a@x.com"
\* GitHub logins the dashboard asks to monitor; the initial entries are FirstUser's
FirstUser == "alice"
Usernames == {FirstUser, "bob"}

NineOClock == [hours |-> 9, minutes |-> 0]
NoConfig == [weekdays |-> {Null}, intervalDays |-> Null, date |-> Null]

\* schedule bodies as the API stores them: {type, config, time, timezone, isActive}
ScheduleAt(type, config, time, tz) ==
  [type |-> type, config |-> config, time |-> time, timezone |-> tz,
   isActive |-> TRUE, nextRunAt |-> Null, lastRunAt |-> Null]

ScheduleBody(type, config, tz) == ScheduleAt(type, config, NineOClock, tz)

ScheduleInputs ==
  { ScheduleBody("daily", NoConfig, "UTC"),
    ScheduleBody("specific_weekdays", [NoConfig EXCEPT !.weekdays = {1, 3, 5}], "UTC"),
    ScheduleBody("fixed_interval", [NoConfig EXCEPT !.intervalDays = 1], "UTC"),
    ScheduleBody("one_time", [NoConfig EXCEPT !.date = DayStart(FirstDay)], "UTC") }

PatchBodies ==
  { ScheduleBody("daily", NoConfig, "UTC"),
    ScheduleBody("monthly_date", NoConfig, "Asia/Kolkata") }

NoEmailStatus == [status |-> "pending", sentAt |-> Null, recipients |-> {}, failureReason |-> <<>>]

NumStr(n) == CASE n = 0 -> "0" [] n = 1 -> "1" [] n = 2 -> "2" [] n = 3 -> "3" [] OTHER -> "n"
LimitReason(maxEmails) ==
  <<"Monthly email limit reached (", NumStr(maxEmails), "). Upgrade your plan to send more.">>


\* ------------------------------------------------------- email rendering
\* Texts are sequences of one-character strings. In the rendered HTML a tag, an
\* entity and the page frame are each one element, so that markup the renderer
\* writes is told apart from characters that come from the input.
NewLine == "\n"
Whitespace == {" ", "\t"}
Special == {"&", "<", ">", "\"", "'"}

\* EmailService.escapeHtml: the htmlEscapes table
htmlEscapes(char) ==
  CASE char = "&" -> "&amp;"
    [] char = "<" -> "&lt;"
    [] char = ">" -> "&gt;"
    [] char = "\"" -> "&quot;"
    [] char = "'" -> "&#39;"

\* variant of escapeHtml that leaves the text as it is
escapeHtmlRaw(text) == text

\* text.replace(/[&<>"']/g, char => htmlEscapes[char])
escapeHtml(text) ==
  [k \in 1..Len(text) |-> IF text[k] \in Special THEN htmlEscapes(text[k]) ELSE text[k]]

\* text.split('\n')
RECURSIVE SplitFrom(_, _, _)
SplitFrom(text, k, line) ==
  IF k > Len(text) THEN <<line>>
  ELSE IF text[k] = NewLine THEN <<line>> \o SplitFrom(text, k + 1, <<>>)
  ELSE SplitFrom(text, k + 1, Append(line, text[k]))

split(text) == SplitFrom(text, 1, <<>>)

\* the longest prefix made of characters of `chars` removed: /^[...]*/
RECURSIVE StripLeading(_, _)
StripLeading(line, chars) ==
  IF line # <<>> /\ Head(line) \in chars THEN StripLeading(Tail(line), chars) ELSE line

RECURSIVE StripTrailing(_, _)
StripTrailing(line, chars) ==
  IF line # <<>> /\ line[Len(line)] \in chars
    THEN StripTrailing(SubSeq(line, 1, Len(line) - 1), chars)
    ELSE line

trim(line) == StripTrailing(StripLeading(line, Whitespace), Whitespace)

startsWith(line, prefix) ==
  Len(line) >= Len(prefix) /\ SubSeq(line, 1, Len(prefix)) = prefix

\* line.replace(/^##\s*/, '') and line.replace(/^#\s*/, ''): the pattern is
\* anchored at the start of the untrimmed line
StripHeading(line, marker) ==
  IF startsWith(line, marker)
    THEN StripLeading(SubSeq(line, Len(marker) + 1, Len(line)), Whitespace)
    ELSE line

\* line.replace(/^[\s-*]+/, '')
StripBullet(line) == StripLeading(line, Whitespace \cup {"-", "*"})

\* the loop of formatAsHTML from line k on: the htmlLines pushed
RECURSIVE RenderLines(_, _, _)
RenderLines(lines, k, inList) ==
  IF k > Len(lines) THEN (IF inList THEN << <<"</ul>">> >> ELSE <<>>)
  ELSE LET line == lines[k]
           trimmedLine == trim(line)
           isListItem == startsWith(trimmedLine, <<"-">>) \/ startsWith(trimmedLine, <<"*">>)
           close == IF inList THEN << <<"</ul>">> >> ELSE <<>>
           open == IF inList THEN <<>> ELSE << <<"<ul>">> >>
       IN IF trimmedLine = <<>>
            THEN close \o << <<"<br>">> >> \o RenderLines(lines, k + 1, FALSE)
          ELSE IF isListItem
            THEN open \o << <<"<li>">> \o escapeHtml(StripBullet(line)) \o <<"</li>">> >>
                   \o RenderLines(lines, k + 1, TRUE)
          ELSE IF startsWith(trimmedLine, <<"#", "#">>)
            THEN close \o << <<"<h2>">> \o escapeHtml(StripHeading(line, <<"#", "#">>)) \o <<"</h2>">> >>
                   \o RenderLines(lines, k + 1, FALSE)
          ELSE IF startsWith(trimmedLine, <<"#">>)
            THEN close \o << <<"<h1>">> \o escapeHtml(StripHeading(line, <<"#">>)) \o <<"</h1>">> >>
                   \o RenderLines(lines, k + 1, FALSE)
          ELSE close \o << <<"<p>">> \o escapeHtml(line) \o <<"</p>">> >>
                 \o RenderLines(lines, k + 1, FALSE)

\* htmlLines.join('\n')
RECURSIVE join(_, _)
join(htmlLines, separator) ==
  IF htmlLines = <<>> THEN <<>>
  ELSE IF Len(htmlLines) = 1 THEN htmlLines[1]
  ELSE htmlLines[1] \o <<separator>> \o join(Tail(htmlLines), separator)

PageHead == "<!DOCTYPE html><html><head><style>...</style></head><body>"
PageTail == "</body></html>"

\* EmailService.formatAsHTML
formatAsHTML(text) ==
  <<PageHead>> \o join(RenderLines(split(text), 1, FALSE), NewLine) \o <<PageTail>>

\* sendEmail: the mailOptions given to transporter.sendMail
mailOptions(content) == [text |-> content, html |-> formatAsHTML(content)]

\* the summary the LLM returned, as text
SummaryText == <<"W", "o", "r", "k", "e", "d", " ", "o", "n", " ", "X">>

\* ---------------------------------------------------------- AI service
\* HTTP status of the LLM's answer to one chat.completions.create call
LlmAnswers == {200, 400, 429, 500}
\* the answers drawn for a scheduled run: the service treats every error alike
RunAnswers == {200, 500}

\* AIService.generateEmailContent with pull requests to report: one call of
\* the client; its content is returned, any error is logged and thrown again
\* (summary "null" stands for the call having thrown)
generateEmailContent(answer, now) ==
  [at |-> now, attempts |-> <<answer>>,
   summary |-> IF answer = 200 THEN "Worked on X" ELSE "null"]

\* The other AIService of the repository: throttle, then makeRequestWithRetry.
\* throttle() gives the instant the request leaves, which the instance keeps
\* as its lastRequestTime
throttle(lastRequestTime, now) ==
  IF now - lastRequestTime < minRequestInterval
    THEN lastRequestTime + minRequestInterval
    ELSE now

shouldRetry(status, retryCount) ==
  (status = 429 \/ (status >= 500 /\ status < 600)) /\ retryCount < maxRetries

\* the answers of the calls makeRequestWithRetry makes, answers[k] being the
\* answer to the k-th call
RECURSIVE makeRequestWithRetry(_, _)
makeRequestWithRetry(answers, retryCount) ==
  LET status == answers[retryCount + 1]
  IN IF status # 200 /\ shouldRetry(status, retryCount)
       THEN <<status>> \o makeRequestWithRetry(answers, retryCount + 1)
       ELSE <<status>>

generateEmailContentWithRetry(answers, now) ==
  LET attempts == makeRequestWithRetry(answers, 0)
  IN [at |-> now, attempts |-> attempts,
      summary |-> IF attempts[Len(attempts)] = 200 THEN "Worked on X" ELSE "null"]

VARIABLES
  clock,           \* new Date(): the current instant
  mcs,             \* monitored_contributors collection
  runs,            \* summary_runs collection, indexed by run id
  company,         \* the tenant's companies document (limits and usage)
  repos,           \* repositories collection: status by id
  intervalHandle,  \* scheduler.js: the handle startScheduler keeps
  timers,          \* the setInterval timers of the process
  polls,           \* poll() invocations: the coroutine's position and locals
  exec,            \* per run id: executeRun's locals and what the run did
  apiCalls,        \* HTTP requests served so far, by kind
  faults,          \* store calls that rejected so far
  outbox,          \* mailOptions handed to transporter.sendMail, in order
  llm,             \* calls of generateEmailContent that reached the LLM, in order
  contributors     \* the contributors collection, in order of insertion

vars == <<clock, mcs, runs, company, repos, intervalHandle, timers, polls, exec, apiCalls,
          faults, outbox, llm, contributors>>

\* ------------------------------------------------------------ store layer
\* MonitoredContributorService.createMonitoring, as POST / calls it with
\* mergedSchedule.nextRunAt = calculateNextRunAt(mergedSchedule)
createMonitoringFor(contributorId, githubUsername, schedule, createdAt) ==
  [status |-> "active",
   contributorId |-> contributorId,
   githubUsername |-> githubUsername,
   schedule |-> [schedule EXCEPT !.nextRunAt = calculateNextRunAt(schedule, createdAt)],
   windowType |-> "since_last_run",
   dateRange |-> <<>>,
   recipients |-> {Recipient}]

\* the entry of the first contributor record
createMonitoring(schedule, createdAt) ==
  createMonitoringFor(1, FirstUser, schedule, createdAt)

\* MonitoredContributorService.findDueForRun(now)
findDueForRun(now) ==
  { i \in DOMAIN mcs : /\ mcs[i].schedule.nextRunAt # Null
                  /\ mcs[i].schedule.nextRunAt <= now
                  /\ mcs[i].schedule.isActive = TRUE
                  /\ mcs[i].status = "active" }

\* cursor.toArray() without a sort: any order of the matching documents
Orders(S) == { f \in [1..Cardinality(S) -> S] : \A a, b \in 1..Cardinality(S) : a # b => f[a] # f[b] }

\* SummaryRunService.createRun
createRun(mcId, scheduledAt, triggerType, now) ==
  [monitoredContributorId |-> mcId, scheduledAt |-> scheduledAt, startedAt |-> now,
   completedAt |-> Null, fetchWindow |-> <<>>, hasActivity |-> FALSE,
   aiSummary |-> "null", emailStatus |-> NoEmailStatus, triggerType |-> triggerType]

\* SummaryRunService.completeRun: an unconditional $set on the run document
completeRun(run, fields, now) ==
  [run EXCEPT !.completedAt = now, !.fetchWindow = fields.fetchWindow,
              !.hasActivity = fields.hasActivity, !.aiSummary = fields.aiSummary]

\* SummaryRunService.updateEmailStatus
updateEmailStatus(run, emailStatus) == [run EXCEPT !.emailStatus = emailStatus]

\* MonitoredContributorService.recordRunCompleted
\* variant of the completion write that stamps lastRunAt and leaves nextRunAt alone
recordRunCompletedKeepingNext(mc, nextRunAt, now) ==
  [mc EXCEPT !.schedule.lastRunAt = now]

recordRunCompleted(mc, nextRunAt, now) ==
  [mc EXCEPT !.schedule.lastRunAt = now, !.schedule.nextRunAt = nextRunAt]

\* MonitoredContributorService.updateSchedule: replaces the whole sub-document
updateSchedule(mc, schedule) == [mc EXCEPT !.schedule = schedule]

\* variant of the counter update that applies the amount twice
incrementUsageTwice(doc, field, amount) == [doc EXCEPT ![field] = @ + amount + amount]

\* CompanyService.incrementUsage: $inc of subscription.usage.<field>, no lower bound
incrementUsage(doc, field, amount) == [doc EXCEPT ![field] = @ + amount]

\* scheduler.js: maxEmails and sentEmails as the guard reads them; createCompany
\* writes both fields, so the ?? defaults are not taken
maxEmailsOf(doc) == doc.maxEmailsPerMonth

sentEmailsOf(doc) == doc.emailsSentThisMonth

\* variant of the guard that admits a send at exactly the limit
EmailLimitReachedStrict(doc) == sentEmailsOf(doc) > maxEmailsOf(doc)

EmailLimitReached(doc) == sentEmailsOf(doc) >= maxEmailsOf(doc)

\* ------------------------------------------------------------------ Init
NoExec ==
  [byTick |-> FALSE, mc |-> Null, statusAtStart |-> "active", startDate |-> Null, endDate |-> Null,
   fetchError |-> FALSE, aiCalled |-> FALSE,
   hasActivity |-> FALSE, aiSummary |-> "null", emailStatus |-> NoEmailStatus,
   seenSent |-> Null, seenMax |-> Null, limitReached |-> FALSE, sendCalled |-> FALSE, delivered |-> FALSE,
   incs |-> 0, threw |-> FALSE, advAt |-> Null, advNext |-> Null,
   wroteStatus |-> "none", finished |-> FALSE]

IdlePoll == [pc |-> "done", dueItems |-> <<>>, idx |-> 0, run |-> 0]

\* CompanyService.createCompany: limits of the plan, usage counters, and the
\* start of the usage period (kept in minutes: a month of milliseconds does not
\* fit the 32-bit integers of the model checker)
Tenant(sent, periodStart) ==
  [maxEmailsPerMonth |-> PlanMaxEmails, reposCount |-> 1, contributorsCount |-> 0,
   emailsSentThisMonth |-> sent, usagePeriodStart |-> periodStart]

\* the collections after onboarding, before the scheduler is started
InitAt(now, entries, tenant) ==
  /\ clock = now
  /\ mcs \in entries
  /\ runs = <<>>
  /\ exec = <<>>
  /\ company = tenant
  /\ repos = [r \in RepoIds |-> "active"]
  /\ intervalHandle = Null
  /\ timers = <<>>
  /\ polls = <<>>
  /\ apiCalls = [lifecycle |-> 0, routes |-> 0]
  /\ faults = 0
  /\ outbox = <<>>
  /\ llm = <<>>
  /\ contributors = IF mcs = <<>> THEN <<>>
                     ELSE <<[githubUsername |-> FirstUser, githubUserId |-> 0]>>

InitWith(entries, tenant) == InitAt(T0, entries, tenant)

Init ==
  InitWith({ <<createMonitoring(s, CreatedAt)>> : s \in ScheduleInputs },
           Tenant(0, CreatedAt \div MS_PER_MINUTE))

\* -------------------------------------------------------------- the clock
AdvanceTo(instants) ==
  /\ \E t \in instants : t > clock /\ clock' = t
  /\ UNCHANGED <<mcs, runs, company, repos, intervalHandle, timers, polls, exec, apiCalls, faults, outbox, llm, contributors>>

Advance == AdvanceTo(Instants)

\* ------------------------------------------------------------- scheduler
\* poll() up to its first await: the coroutine is about to query the due entries
SpawnPoll == Append(polls, [pc |-> "find", dueItems |-> <<>>, idx |-> 0, run |-> 0])

\* startScheduler(): poll() once immediately, then setInterval(poll, POLL_INTERVAL_MS);
\* the handle of an interval already running is overwritten
startScheduler(maxPolls) ==
  /\ Len(polls) < maxPolls
  /\ polls' = SpawnPoll
  /\ timers' = Append(timers, [active |-> TRUE, nextFire |-> clock + POLL_INTERVAL_MS])
  /\ intervalHandle' = Len(timers) + 1
  /\ UNCHANGED <<clock, mcs, runs, company, repos, exec, apiCalls, faults, outbox, llm, contributors>>

\* the host starts the loop once
StartScheduler ==
  /\ timers = <<>>
  /\ startScheduler(MaxPolls)

\* stopScheduler(): clearInterval(intervalHandle)
StopScheduler ==
  /\ intervalHandle # Null
  /\ timers' = [timers EXCEPT ![intervalHandle].active = FALSE]
  /\ intervalHandle' = Null
  /\ UNCHANGED <<clock, mcs, runs, company, repos, polls, exec, apiCalls, faults, outbox, llm, contributors>>

\* the interval timer fires: poll() is called whether or not an earlier poll() returned
TimerFire(t, maxPolls) ==
  /\ timers[t].active
  /\ clock >= timers[t].nextFire
  /\ Len(polls) < maxPolls
  /\ polls' = SpawnPoll
  /\ timers' = [timers EXCEPT ![t].nextFire = clock + POLL_INTERVAL_MS]
  /\ UNCHANGED <<clock, mcs, runs, company, repos, intervalHandle, exec, apiCalls, faults, outbox, llm, contributors>>

PollFire(t) == TimerFire(t, MaxPolls)

\* poll(): const dueItems = await findDueForRun(); if none, return
PollFind(p) ==
  /\ polls[p].pc = "find"
  /\ LET due == findDueForRun(clock)
     IN IF due = {}
          THEN polls' = [polls EXCEPT ![p] = IdlePoll]
          ELSE \E order \in Orders(due) :
                 polls' = [polls EXCEPT ![p] =
                   [pc |-> "create", idx |-> 1, run |-> 0,
                    dueItems |-> [k \in 1..Cardinality(due) |->
                                    [id |-> order[k], doc |-> mcs[order[k]]]]]]
  /\ UNCHANGED <<clock, mcs, runs, company, repos, intervalHandle, timers, exec, apiCalls, faults, outbox, llm, contributors>>

Snapshot(p) == polls[p].dueItems[polls[p].idx]

\* executeRun step 1: createRun with scheduledAt = mc.schedule.nextRunAt
ExecCreateRun(p) ==
  /\ polls[p].pc = "create"
  /\ Len(runs) < MaxRuns
  /\ LET mc == Snapshot(p)
     IN /\ runs' = Append(runs, createRun(mc.id, mc.doc.schedule.nextRunAt, "scheduled", clock))
        /\ exec' = Append(exec, [NoExec EXCEPT !.byTick = TRUE, !.mc = mc.id,
                                               !.statusAtStart = mcs[mc.id].status])
  /\ polls' = [polls EXCEPT ![p].pc = "pipeline", ![p].run = Len(runs) + 1]
  /\ UNCHANGED <<clock, mcs, company, repos, intervalHandle, timers, apiCalls, faults, outbox, llm, contributors>>

\* variant of the reason that looks at the summary before the activity
SkipReasonSummaryFirst(hasActivity, aiSummary) ==
  IF aiSummary = "null" THEN <<"AI summary generation failed">>
  ELSE IF ~hasActivity THEN <<"No activity">>
  ELSE <<"No recipients configured">>

SkipReason(hasActivity, aiSummary) ==
  IF ~hasActivity THEN <<"No activity">>
  ELSE IF aiSummary = "null" THEN <<"AI summary generation failed">>
  ELSE <<"No recipients configured">>

\* an awaited store call rejects / resolves
Rejects == faults < MaxFaults /\ faults' = faults + 1
Resolves == faults' = faults

\* executeRun steps 2-6 up to the plan-limit guard: token, fetch window, fetch
\* (a GitHub error is caught and leaves no pull requests), AI summary (an error
\* is caught and leaves it null), and the decision not to send.
ExecPipeline(p) ==
  /\ polls[p].pc = "pipeline"
  /\ LET mc == Snapshot(p).doc
         r == polls[p].run
         endDate == clock
         startDate == IF mc.windowType = "since_last_run" /\ mc.schedule.lastRunAt # Null
                        THEN mc.schedule.lastRunAt ELSE endDate - MS_PER_DAY
     IN \/ \E hasActivity \in BOOLEAN, answer \in RunAnswers, fetchError \in BOOLEAN :
             \* step 5: the AI service is called only if (hasActivity); an error
             \* it throws is caught and leaves aiSummary null
             LET call == generateEmailContent(answer, clock)
                 summary == IF hasActivity THEN call.summary ELSE "null"
                 willSend == hasActivity /\ summary # "null" /\ mc.recipients # {}
             IN /\ hasActivity \/ answer = 200
                \* octokit.pulls.list rejects (401, 403, 404, rate limit): caught and
                \* logged, pullRequests stays empty
                /\ fetchError => ~hasActivity
                /\ IF fetchError THEN Rejects ELSE Resolves
                /\ llm' = IF hasActivity THEN Append(llm, call) ELSE llm
                /\ exec' = [exec EXCEPT ![r].startDate = startDate, ![r].endDate = endDate,
                              ![r].fetchError = fetchError,
                              ![r].aiCalled = hasActivity,
                              ![r].hasActivity = hasActivity, ![r].aiSummary = summary,
                              ![r].emailStatus =
                                IF willSend
                                  THEN [status |-> "skipped", sentAt |-> Null,
                                        recipients |-> {}, failureReason |-> <<>>]
                                  ELSE [status |-> "skipped", sentAt |-> Null,
                                        recipients |-> mc.recipients,
                                        failureReason |-> SkipReason(hasActivity, summary)]]
                /\ polls' = [polls EXCEPT ![p].pc = IF willSend THEN "quota" ELSE "complete"]
        \* repositoryService.findById rejects: the outer catch takes over
        \/ /\ Rejects
           /\ exec' = [exec EXCEPT ![r].threw = TRUE]
           /\ polls' = [polls EXCEPT ![p].pc = "complete"]
           /\ llm' = llm
  /\ UNCHANGED <<clock, mcs, runs, company, repos, intervalHandle, timers, apiCalls, outbox, contributors>>

\* the plan-limit guard: companyService.findById, then sentEmails >= maxEmails
ExecQuotaCheck(p) ==
  /\ polls[p].pc = "quota"
  /\ LET mc == Snapshot(p).doc
         r == polls[p].run
     IN \/ /\ EmailLimitReached(company)
           /\ Resolves
           /\ exec' = [exec EXCEPT ![r].limitReached = TRUE,
                         ![r].seenSent = sentEmailsOf(company),
                         ![r].seenMax = maxEmailsOf(company),
                         ![r].emailStatus =
                           [status |-> "skipped", sentAt |-> Null, recipients |-> mc.recipients,
                            failureReason |-> LimitReason(maxEmailsOf(company))]]
           /\ polls' = [polls EXCEPT ![p].pc = "complete"]
        \/ /\ ~EmailLimitReached(company)
           /\ Resolves
           /\ exec' = [exec EXCEPT ![r].seenSent = sentEmailsOf(company),
                                   ![r].seenMax = maxEmailsOf(company)]
           /\ polls' = [polls EXCEPT ![p].pc = "send"]
        \* the lookup rejects: logged, and the run goes on to send
        \/ /\ Rejects
           /\ exec' = exec
           /\ polls' = [polls EXCEPT ![p].pc = "send"]
  /\ UNCHANGED <<clock, mcs, runs, company, repos, intervalHandle, timers, apiCalls, outbox, llm, contributors>>

\* emailService.sendEmail, then incrementUsage('emailsSentThisMonth'), in one try
ExecSendEmail(p) ==
  /\ polls[p].pc = "send"
  /\ LET mc == Snapshot(p).doc
         r == polls[p].run
     IN \/ \* sent and counted
           /\ Resolves
           /\ outbox' = Append(outbox, mailOptions(SummaryText))
           /\ company' = incrementUsage(company, "emailsSentThisMonth", 1)
           /\ exec' = [exec EXCEPT ![r].sendCalled = TRUE, ![r].delivered = TRUE,
                         ![r].incs = @ + 1,
                         ![r].emailStatus = [status |-> "sent", sentAt |-> clock,
                                             recipients |-> mc.recipients, failureReason |-> <<>>]]
        \/ \* the SMTP transport rejects
           /\ Resolves
           /\ outbox' = outbox
           /\ company' = company
           /\ exec' = [exec EXCEPT ![r].sendCalled = TRUE,
                         ![r].emailStatus = [status |-> "failed", sentAt |-> Null,
                                             recipients |-> mc.recipients,
                                             failureReason |-> <<"connection timeout">>]]
        \/ \* sent, but incrementUsage rejects: the same catch records failed
           /\ Rejects
           /\ outbox' = Append(outbox, mailOptions(SummaryText))
           /\ company' = company
           /\ exec' = [exec EXCEPT ![r].sendCalled = TRUE, ![r].delivered = TRUE,
                         ![r].emailStatus = [status |-> "failed", sentAt |-> Null,
                                             recipients |-> mc.recipients,
                                             failureReason |-> <<"store error">>]]
  /\ polls' = [polls EXCEPT ![p].pc = "complete"]
  /\ UNCHANGED <<clock, mcs, runs, repos, intervalHandle, timers, apiCalls, llm, contributors>>

FailedFields == [fetchWindow |-> <<>>, hasActivity |-> FALSE, aiSummary |-> "null"]

FailedStatus == [status |-> "failed", sentAt |-> Null, recipients |-> {},
                 failureReason |-> <<"store error">>]

\* step 7, completeRun; in the catch block the same call with the failed fields
ExecCompleteRun(p) ==
  /\ polls[p].pc = "complete"
  /\ LET r == polls[p].run
         fields == IF exec[r].threw THEN FailedFields
                   ELSE [fetchWindow |-> <<exec[r].startDate, exec[r].endDate>>,
                         hasActivity |-> exec[r].hasActivity, aiSummary |-> exec[r].aiSummary]
     IN \/ /\ Resolves
           /\ runs' = [runs EXCEPT ![r] = completeRun(@, fields, clock)]
           /\ polls' = [polls EXCEPT ![p].pc = "status"]
           /\ exec' = exec
        \* the write rejects inside the try block
        \/ /\ ~exec[r].threw
           /\ Rejects
           /\ exec' = [exec EXCEPT ![r].threw = TRUE]
           /\ UNCHANGED <<runs, polls, outbox, llm, contributors>>
  /\ UNCHANGED <<clock, mcs, company, repos, intervalHandle, timers, apiCalls, outbox, llm, contributors>>

\* step 7, updateEmailStatus; in the catch block with status failed
ExecUpdateEmailStatus(p) ==
  /\ polls[p].pc = "status"
  /\ LET r == polls[p].run
         status == IF exec[r].threw THEN FailedStatus ELSE exec[r].emailStatus
     IN \/ /\ Resolves
           /\ runs' = [runs EXCEPT ![r] = updateEmailStatus(@, status)]
           /\ exec' = [exec EXCEPT ![r].wroteStatus = status.status]
           /\ polls' = [polls EXCEPT ![p].pc = "advance"]
        \/ /\ ~exec[r].threw
           /\ Rejects
           /\ exec' = [exec EXCEPT ![r].threw = TRUE]
           /\ polls' = [polls EXCEPT ![p].pc = "complete"]
           /\ runs' = runs
  /\ UNCHANGED <<clock, mcs, company, repos, intervalHandle, timers, apiCalls, outbox, llm, contributors>>

\* after executeRun returns: the for loop of poll() takes the next due item
NextItem(p) ==
  IF polls[p].idx < Len(polls[p].dueItems)
    THEN [polls[p] EXCEPT !.pc = "create", !.idx = @ + 1, !.run = 0]
    ELSE IdlePoll

\* step 8: nextRunAt = calculateNextRunAt(mc.schedule) on the document read by
\* findDueForRun, then recordRunCompleted; the same two calls end the catch block
ExecRecordRunCompleted(p) ==
  /\ polls[p].pc = "advance"
  /\ LET mc == Snapshot(p)
         r == polls[p].run
         nextRunAt == calculateNextRunAt(mc.doc.schedule, clock)
     IN \/ /\ Resolves
           /\ mcs' = [mcs EXCEPT ![mc.id] = recordRunCompleted(@, nextRunAt, clock)]
           /\ exec' = [exec EXCEPT ![r].advAt = clock,
                                   ![r].advNext = nextRunAt, ![r].finished = TRUE]
           /\ polls' = [polls EXCEPT ![p] = NextItem(p)]
        \/ /\ ~exec[r].threw
           /\ Rejects
           /\ exec' = [exec EXCEPT ![r].threw = TRUE]
           /\ polls' = [polls EXCEPT ![p].pc = "complete"]
           /\ mcs' = mcs
  /\ UNCHANGED <<clock, runs, company, repos, intervalHandle, timers, apiCalls, outbox, llm, contributors>>

\* ------------------------------------------------------------ HTTP routes
\* Each request handler is one action: its awaits are consecutive store calls
\* and nothing of the claims below depends on interleaving inside a request.
Served == apiCalls' = [apiCalls EXCEPT !.routes = @ + 1] /\ faults' = faults

ServedLifecycle == apiCalls' = [apiCalls EXCEPT !.lifecycle = @ + 1] /\ faults' = faults

\* PATCH /monitored-contributors/:id {status: 'paused'}
Pause(i) ==
  /\ apiCalls.lifecycle < MaxLifecycleCalls
  /\ mcs[i].status = "active"
  /\ mcs' = [mcs EXCEPT ![i].status = "paused"]
  /\ ServedLifecycle
  /\ UNCHANGED <<clock, runs, company, repos, intervalHandle, timers, polls, exec, outbox, llm, contributors>>

\* PATCH /monitored-contributors/:id {status: 'active'}
Resume(i) ==
  /\ apiCalls.lifecycle < MaxLifecycleCalls
  /\ mcs[i].status # "active"
  /\ mcs' = [mcs EXCEPT ![i].status = "active"]
  /\ ServedLifecycle
  /\ UNCHANGED <<clock, runs, company, repos, intervalHandle, timers, polls, exec, outbox, llm, contributors>>

\* DELETE /monitored-contributors/:id
Remove(i) ==
  /\ apiCalls.lifecycle < MaxLifecycleCalls
  /\ mcs[i].status # "removed"
  /\ mcs' = [mcs EXCEPT ![i].status = "removed", ![i].schedule.isActive = FALSE]
  /\ ServedLifecycle
  /\ UNCHANGED <<clock, runs, company, repos, intervalHandle, timers, polls, exec, outbox, llm, contributors>>

\* PATCH /monitored-contributors/:id {schedule}: the body replaces the sub-document
PatchSchedule(i, body) ==
  /\ apiCalls.routes < MaxApiCalls
  /\ mcs' = [mcs EXCEPT ![i] = updateSchedule(@, body)]
  /\ Served
  /\ UNCHANGED <<clock, runs, company, repos, intervalHandle, timers, polls, exec, outbox, llm, contributors>>

\* POST /monitored-contributors for a contributor and repository that already
\* have a record: the record is overwritten in place with status active, the
\* merged schedule (lastRunAt null, nextRunAt computed at the request) and the
\* request's fetch and email configuration
Reactivate(i, body) ==
  /\ apiCalls.routes < MaxApiCalls
  /\ mcs' = [mcs EXCEPT ![i] = createMonitoringFor(@.contributorId, @.githubUsername,
                                                     body, clock)]
  /\ Served
  /\ UNCHANGED <<clock, runs, company, repos, intervalHandle, timers, polls, exec, outbox, llm, contributors>>

\* ContributorService.findOrCreate: the record with this githubUserId, if any
findOrCreate(githubUserId) ==
  LET found == { c \in DOMAIN contributors : contributors[c].githubUserId = githubUserId }
  IN IF found = {} THEN 0 ELSE CHOOSE c \in found : \A o \in found : c <= o

\* POST /monitored-contributors {githubUsername, repositoryId, schedule}: the
\* contributor is looked up with githubUserId: 0, then the entry of (company,
\* contributor, repository) is overwritten in place if there is one, whatever
\* its status, and created otherwise
AddMonitoring(githubUsername, body) ==
  /\ apiCalls.routes < MaxApiCalls
  /\ LET known == findOrCreate(0)
         contributorId == IF known = 0 THEN Len(contributors) + 1 ELSE known
         existing == { i \in DOMAIN mcs : mcs[i].contributorId = contributorId }
     IN /\ contributors' = IF known = 0
                             THEN Append(contributors, [githubUsername |-> githubUsername,
                                                        githubUserId |-> 0])
                             ELSE contributors
        /\ mcs' = IF existing = {}
                    THEN Append(mcs, createMonitoringFor(contributorId, githubUsername,
                                                         body, clock))
                    ELSE LET i == CHOOSE e \in existing : \A o \in existing : e <= o
                         IN [mcs EXCEPT ![i] = createMonitoringFor(@.contributorId,
                                                                   @.githubUsername,
                                                                   body, clock)]
  /\ Served
  /\ UNCHANGED <<clock, runs, company, repos, intervalHandle, timers, polls, exec, outbox, llm>>

\* POST /internal/runs/execute and POST /monitored-contributors/:id/trigger:
\* both only insert the run record
QueueRun(i, triggerType) ==
  /\ apiCalls.routes < MaxApiCalls
  /\ Len(runs) < MaxRuns
  /\ runs' = Append(runs, createRun(i, Null, triggerType, clock))
  /\ exec' = Append(exec, [NoExec EXCEPT !.mc = i, !.statusAtStart = mcs[i].status])
  /\ Served
  /\ UNCHANGED <<clock, mcs, company, repos, intervalHandle, timers, polls, outbox, llm, contributors>>

ExecuteHook(i) == QueueRun(i, "scheduled")

Trigger(i) == QueueRun(i, "manual")

SentStatus == [status |-> "sent", sentAt |-> Null, recipients |-> {Recipient}, failureReason |-> <<>>]

\* request bodies of PATCH /internal/runs/:runId/complete; emailStatus is optional
HookBodies ==
  { [fetchWindow |-> <<>>, hasActivity |-> TRUE, aiSummary |-> "Worked on X",
     emailStatus |-> <<SentStatus>>],
    [fetchWindow |-> <<>>, hasActivity |-> FALSE, aiSummary |-> "null",
     emailStatus |-> <<>>] }

\* PATCH /internal/runs/:runId/complete
CompleteHook(r, body) ==
  /\ apiCalls.routes < MaxApiCalls
  /\ r \in 1..Len(runs)
  /\ LET completed == completeRun(runs[r], body, clock)
         i == runs[r].monitoredContributorId
     IN /\ runs' = [runs EXCEPT ![r] =
                      IF body.emailStatus # <<>>
                        THEN updateEmailStatus(completed, body.emailStatus[1])
                        ELSE completed]
        /\ mcs' = [mcs EXCEPT ![i] =
                     recordRunCompleted(@, calculateNextRunAt(mcs[i].schedule, clock), clock)]
  /\ Served
  /\ UNCHANGED <<clock, company, repos, intervalHandle, timers, polls, exec, outbox, llm, contributors>>

\* monitoredContributorService.findByCompanyAndRepo: status != removed
findByCompanyAndRepo(repoId) ==
  { i \in DOMAIN mcs : RepoOf(i) = repoId /\ mcs[i].status # "removed" }

\* DELETE /company/repos/:repoId
DeleteRepo(repoId) ==
  /\ apiCalls.routes < MaxApiCalls
  /\ LET toPause == { i \in findByCompanyAndRepo(repoId) : mcs[i].status = "active" }
         pausedCount == Cardinality(toPause)
         afterRepo == incrementUsage(company, "reposCount", 0 - 1)
     IN /\ mcs' = [i \in DOMAIN mcs |-> IF i \in toPause THEN [mcs[i] EXCEPT !.status = "paused"]
                                   ELSE mcs[i]]
        /\ repos' = [repos EXCEPT ![repoId] = "removed"]
        /\ company' = IF pausedCount > 0
                        THEN incrementUsage(afterRepo, "contributorsCount", 0 - pausedCount)
                        ELSE afterRepo
  /\ Served
  /\ UNCHANGED <<clock, runs, intervalHandle, timers, polls, exec, outbox, llm, contributors>>

\* POST /company/repos for a repository onboarded before: reactivated when it
\* was removed, 409 DUPLICATE otherwise
OnboardRepo(repoId) ==
  /\ apiCalls.routes < MaxApiCalls
  /\ repos[repoId] = "removed"
  /\ repos' = [repos EXCEPT ![repoId] = "active"]
  /\ company' = incrementUsage(company, "reposCount", 1)
  /\ Served
  /\ UNCHANGED <<clock, mcs, runs, intervalHandle, timers, polls, exec, outbox, llm, contributors>>

\* ------------------------------------------------------------------ system
\* the scheduler process: timer, poll() and executeRun()
SchedulerNext ==
  \/ StartScheduler
  \/ StopScheduler
  \/ \E t \in 1..Len(timers) : PollFire(t)
  \/ \E p \in 1..Len(polls) : PollFind(p)
  \/ \E p \in 1..Len(polls) : ExecCreateRun(p)
  \/ \E p \in 1..Len(polls) : ExecPipeline(p)
  \/ \E p \in 1..Len(polls) : ExecQuotaCheck(p)
  \/ \E p \in 1..Len(polls) : ExecSendEmail(p)
  \/ \E p \in 1..Len(polls) : ExecCompleteRun(p)
  \/ \E p \in 1..Len(polls) : ExecUpdateEmailStatus(p)
  \/ \E p \in 1..Len(polls) : ExecRecordRunCompleted(p)

\* the dashboard routes that change an entry's lifecycle
LifecycleNext ==
  \/ \E i \in DOMAIN mcs : Pause(i)
  \/ \E i \in DOMAIN mcs : Resume(i)
  \/ \E i \in DOMAIN mcs : Remove(i)

\* the routes an external executor and the dashboard use on runs, schedules
\* and repositories
RoutesNext ==
  \/ \E i \in DOMAIN mcs, body \in PatchBodies : PatchSchedule(i, body)
  \/ \E i \in DOMAIN mcs : ExecuteHook(i)
  \/ \E i \in DOMAIN mcs : Trigger(i)
  \/ \E r \in 1..Len(runs), body \in HookBodies : CompleteHook(r, body)
  \/ \E repoId \in RepoIds : DeleteRepo(repoId)
  \/ \E repoId \in RepoIds : OnboardRepo(repoId)

\* the scheduler process beside the requests that take an entry out of service
Next ==
  \/ Advance
  \/ SchedulerNext
  \/ \E i \in DOMAIN mcs : Pause(i)
  \/ \E i \in DOMAIN mcs : Remove(i)

Spec == Init /\ [][Next]_vars

\* the HTTP API alone: no scheduler process is started
NextApi == Advance \/ LifecycleNext \/ RoutesNext

SpecApi == Init /\ [][NextApi]_vars

\* the scheduler process beside the two routes that open a run; the event loop
\* keeps serving timers and continuations, and time keeps passing
NextQueued ==
  \/ Advance
  \/ SchedulerNext
  \/ \E i \in DOMAIN mcs : ExecuteHook(i)
  \/ \E i \in DOMAIN mcs : Trigger(i)

SpecQueued == Init /\ [][NextQueued]_vars /\ WF_vars(SchedulerNext) /\ WF_vars(Advance)

\* the process dies while a run is under way (kill, crash, redeploy): its
\* coroutines and timers are gone, the collections stay as they are; a new
\* process can then call startScheduler()
Crash ==
  /\ \E p \in 1..Len(polls) : polls[p].run # 0
  /\ polls' = [p \in 1..Len(polls) |-> IdlePoll]
  /\ timers' = <<>>
  /\ intervalHandle' = Null
  /\ UNCHANGED <<clock, mcs, runs, company, repos, exec, apiCalls, faults, outbox, llm, contributors>>

NextCrash == Advance \/ SchedulerNext \/ Crash

SpecCrash == Init /\ [][NextCrash]_vars /\ WF_vars(SchedulerNext) /\ WF_vars(Advance)

\* "1 month" of the usage period, taken as 30 days, in minutes
MINUTES_PER_MONTH == 30 * MINUTES_PER_DAY

Minute(instant) == instant \div MS_PER_MINUTE

\* now >= usagePeriodStart + 1 month
PeriodOver(doc, now) == Minute(now) >= doc.usagePeriodStart + MINUTES_PER_MONTH

\* a tenant that used up its plan in a usage period that ends one minute after
\* the scheduler starts
InitRollover ==
  InitWith({ <<createMonitoring(ScheduleBody("daily", NoConfig, "UTC"), CreatedAt)>> },
           Tenant(PlanMaxEmails, Minute(T0) + 1 - MINUTES_PER_MONTH))

NextRollover == Advance \/ SchedulerNext

SpecRollover == InitRollover /\ [][NextRollover]_vars

\* an entry created with fetchConfig {windowType, dateRange}
withFetchConfig(mc, windowType, dateRange) ==
  [mc EXCEPT !.windowType = windowType, !.dateRange = dateRange]

DailyEntry == createMonitoring(ScheduleBody("daily", NoConfig, "UTC"), CreatedAt)

\* a configured range: the whole of the day before the first model day
ConfiguredRange == <<DayStart(FirstDay - 1), DayStart(FirstDay)>>

\* entries of each window policy: never run, run the day before, explicit range
WindowEntries ==
  { <<DailyEntry>>,
    <<recordRunCompleted(DailyEntry, DailyEntry.schedule.nextRunAt, CreatedAt)>>,
    <<withFetchConfig(DailyEntry, "date_range", ConfiguredRange)>> }

InitWindow == InitWith(WindowEntries, Tenant(0, CreatedAt \div MS_PER_MINUTE))

NextWindow == Advance \/ SchedulerNext

SpecWindow == InitWindow /\ [][NextWindow]_vars

\* the scheduler process beside the dashboard requests that rewrite an entry's
\* schedule: edit, removal, and creation over an existing record
NextSchedule ==
  \/ Advance
  \/ SchedulerNext
  \/ /\ apiCalls.routes < MaxEdits
     /\ \E i \in DOMAIN mcs, body \in PatchBodies : PatchSchedule(i, body)
  \/ /\ apiCalls.routes < MaxEdits
     /\ \E i \in DOMAIN mcs, body \in ScheduleInputs : Reactivate(i, body)

SpecSchedule == Init /\ [][NextSchedule]_vars


\* two entries due at once with different nextRunAt: 09:00 in UTC and 09:00 in
\* Asia/Kolkata (03:30 UTC), both created the day before
TwoEntries ==
  <<createMonitoring(ScheduleBody("daily", NoConfig, "UTC"), CreatedAt),
    createMonitoring(ScheduleBody("daily", NoConfig, "Asia/Kolkata"), CreatedAt)>>

InitOrder == InitWith({TwoEntries}, Tenant(0, CreatedAt \div MS_PER_MINUTE))

\* one tick: startScheduler's immediate poll() and the runs it executes
NextOrder ==
  \/ StartScheduler
  \/ \E p \in 1..Len(polls) : PollFind(p)
  \/ \E p \in 1..Len(polls) : ExecCreateRun(p)
  \/ \E p \in 1..Len(polls) : ExecPipeline(p)
  \/ \E p \in 1..Len(polls) : ExecQuotaCheck(p)
  \/ \E p \in 1..Len(polls) : ExecSendEmail(p)
  \/ \E p \in 1..Len(polls) : ExecCompleteRun(p)
  \/ \E p \in 1..Len(polls) : ExecUpdateEmailStatus(p)
  \/ \E p \in 1..Len(polls) : ExecRecordRunCompleted(p)

SpecOrder == InitOrder /\ [][NextOrder]_vars

\* the scheduler process over an entry with a recipient and over one whose
\* emailConfig.recipients is empty
SkipEntries == { <<DailyEntry>>, <<[DailyEntry EXCEPT !.recipients = {}]>> }

InitSkip == InitWith(SkipEntries, Tenant(0, CreatedAt \div MS_PER_MINUTE))

NextSkip == Advance \/ SchedulerNext

SpecSkip == InitSkip /\ [][NextSkip]_vars

\* ------------------------------------------- the calculator on its own
\* calculateNextRunAt over a range of schedules and reference instants: POST
\* /monitored-contributors applies it to the request's schedule at the instant
\* of the request
CalcHours == {0, 3, 9, 12, 21}
CalcInstants == { DayStart(d) + h * MS_PER_HOUR : d \in (FirstDay - 2)..(FirstDay + 1), h \in CalcHours }
CalcTimes == { NineOClock, [hours |-> 2, minutes |-> 30], [hours |-> 1, minutes |-> 30],
               [hours |-> 23, minutes |-> 28] }
CalcZones == {"UTC", "Asia/Kolkata", "America/Phoenix", "America/New_York", "Europe/London"}
MonWedFri == {1, 3, 5}
OneTimeDates == { DayStart(FirstDay), DayStart(FirstDay) + 15 * MS_PER_HOUR }

OneTimeInputs ==
  { ScheduleBody("one_time", [NoConfig EXCEPT !.date = d], tz) :
      d \in OneTimeDates \cup {Null}, tz \in {"UTC", "Asia/Kolkata"} }

RecurringInputs ==
  { ScheduleAt(c[1], c[2], time, tz) :
      c \in { <<"daily", NoConfig>>,
              <<"specific_weekdays", [NoConfig EXCEPT !.weekdays = MonWedFri]>>,
              <<"fixed_interval", [NoConfig EXCEPT !.intervalDays = 1]>> },
      time \in CalcTimes, tz \in CalcZones }

CalcInputs == OneTimeInputs \cup RecurringInputs

InitCalc ==
  \E now \in CalcInstants :
    InitAt(now, { <<createMonitoring(s, now)>> : s \in CalcInputs },
           Tenant(0, CreatedAt \div MS_PER_MINUTE))

NextCalc == \E i \in DOMAIN mcs, body \in CalcInputs : Reactivate(i, body)

SpecCalc == InitCalc /\ [][NextCalc]_vars

\* the scheduler process over a daily entry until its second occurrence
GapInstants == Instants \cup {T0 + MS_PER_DAY}

InitGap == InitWith({<<DailyEntry>>}, Tenant(0, CreatedAt \div MS_PER_MINUTE))
NextGap == AdvanceTo(GapInstants) \/ SchedulerNext
SpecGap == InitGap /\ [][NextGap]_vars

\* the dashboard adding monitoring for one login after another
NextAdd ==
  \/ Advance
  \/ \E githubUsername \in Usernames, body \in ScheduleInputs :
       AddMonitoring(githubUsername, body)
  \/ \E i \in DOMAIN mcs : Remove(i)

InitAdd == InitWith({<<>>}, Tenant(0, CreatedAt \div MS_PER_MINUTE))
SpecAdd == InitAdd /\ [][NextAdd]_vars

\* a host that calls startScheduler and stopScheduler in any sequence, over an
\* entry that is paused: every tick finds nothing due and returns
NextStop ==
  \/ Advance
  \/ Len(timers) < MaxStarts /\ startScheduler(MaxTicks)
  \/ StopScheduler
  \/ \E t \in 1..Len(timers) : TimerFire(t, MaxTicks)
  \/ \E p \in 1..Len(polls) : PollFind(p)

InitStop == InitWith({<<[DailyEntry EXCEPT !.status = "paused"]>>},
                     Tenant(0, CreatedAt \div MS_PER_MINUTE))
SpecStop == InitStop /\ [][NextStop]_vars

\* one tick over two entries, with time free to pass between its steps
NextThrottle == Advance \/ NextOrder
SpecThrottle == InitOrder /\ [][NextThrottle]_vars

\* ------------------------------------------- the AI service on its own
\* generateEmailContent of the retrying service, called with pull requests to
\* report; answers[k] is what the LLM answers to the k-th call of the client
AnswerSeqs == [1..(maxRetries + 1) -> LlmAnswers]

GenerateEmailContent(answers) ==
  /\ Len(llm) < MaxLlmCalls
  /\ LET lastRequestTime == IF llm = <<>> THEN 0 ELSE llm[Len(llm)].at
     IN llm' = Append(llm, generateEmailContentWithRetry(answers,
                                                        throttle(lastRequestTime, clock)))
  /\ UNCHANGED <<clock, mcs, runs, company, repos, intervalHandle, timers, polls, exec,
                 apiCalls, faults, outbox, contributors>>

NextLlm == Advance \/ \E answers \in AnswerSeqs : GenerateEmailContent(answers)
SpecLlm == Init /\ [][NextLlm]_vars

\* ------------------------------------------------- the renderer on its own
\* EmailService.sendEmail(to, subject, content) called with a plain-text body:
\* the first message of the process
MailChars == {"a", "&", "<", ">", "\"", "'", "-", "#", " ", NewLine}
Bodies == UNION { [1..n -> MailChars] : n \in 0..MaxBodyLen }

SendEmail(content) ==
  /\ outbox = <<>>
  /\ outbox' = Append(outbox, mailOptions(content))
  /\ UNCHANGED <<clock, mcs, runs, company, repos, intervalHandle, timers, polls, exec,
                 apiCalls, faults, llm, contributors>>

NextMail == \E content \in Bodies : SendEmail(content)

SpecMail == Init /\ [][NextMail]_vars

\* ================================================================ properties
RunIds == 1..Len(runs)
TickRuns == { r \in RunIds : exec[r].byTick }
InFlight(r) == runs[r].completedAt = Null
ActivePolls == { p \in 1..Len(polls) : polls[p].pc # "done" }
Terminal == {"sent", "failed", "skipped"}

\* C1: for every entry, at most one run created by the tick loop is in flight
\* (created, completion not yet written) at any time.
C1_OneRunInFlight ==
  \A a, b \in TickRuns :
    (a # b /\ runs[a].monitoredContributorId = runs[b].monitoredContributorId)
      => ~(InFlight(a) /\ InFlight(b))

C3_StrictlyIncreasing ==
  [][\A r \in TickRuns :
       (~exec[r].finished /\ exec'[r].finished /\ exec'[r].advNext # Null)
         => exec'[r].advNext > mcs[exec[r].mc].schedule.nextRunAt]_vars

\* C4: once a run is completed its result fields never change again, and once
\* its delivery status is terminal that never changes again.
C4_CompletionIdempotent ==
  [][\A r \in RunIds :
       runs[r].completedAt # Null =>
         /\ runs'[r].completedAt = runs[r].completedAt
         /\ runs'[r].hasActivity = runs[r].hasActivity
         /\ runs'[r].aiSummary = runs[r].aiSummary
         /\ runs'[r].fetchWindow = runs[r].fetchWindow
         /\ (runs[r].emailStatus.status \in Terminal
               => runs'[r].emailStatus = runs[r].emailStatus)]_vars

\* C5: a closed run record (completedAt set) has a terminal delivery status.
C5_ClosedIsTerminal ==
  \A r \in RunIds : runs[r].completedAt # Null => runs[r].emailStatus.status \in Terminal

\* the run has activity, a summary and recipients, and its plan-limit guard
\* read a usage at or above the limit
AtQuota(r) ==
  /\ exec[r].hasActivity /\ exec[r].aiSummary # "null"
  /\ exec[r].seenSent # Null /\ exec[r].seenSent >= exec[r].seenMax

QuotaSkipped(r) ==
  /\ exec[r].limitReached
  /\ exec[r].emailStatus.status = "skipped"
  /\ ~exec[r].sendCalled
  /\ exec[r].incs = 0
  /\ (exec[r].finished => mcs[exec[r].mc].schedule.lastRunAt # Null)
  /\ (exec[r].finished /\ ~exec[r].threw => runs[r].emailStatus = exec[r].emailStatus)

C8_UsageNonNegative ==
  /\ company.reposCount >= 0
  /\ company.contributorsCount >= 0
  /\ company.emailsSentThisMonth >= 0

\* C9: every run the tick loop created was created while its entry was active.
C9_StartedOnlyWhenActive ==
  \A r \in TickRuns : exec[r].statusAtStart = "active"

\* C10: at most one poll() invocation is under way at any time.
C10_TicksNeverOverlap == Cardinality(ActivePolls) <= 1

Closed(r) == runs[r].completedAt # Null /\ runs[r].emailStatus.status \in Terminal

\* C11: every run opened by POST /:id/trigger or POST /internal/runs/execute is
\* eventually closed with a terminal delivery status.
C11_QueuedRunIsExecuted ==
  \A r \in 1..MaxRuns : (r \in RunIds /\ ~exec[r].byTick) ~> (r \in RunIds /\ Closed(r))

\* a run that is open while no poll() of the process is executing it
Orphaned(r) == InFlight(r) /\ \A p \in 1..Len(polls) : polls[p].run # r

\* C12: every run left open by a process that died is eventually converted to
\* failed with reason "abandoned".
C12_OrphanIsReaped ==
  \A r \in 1..MaxRuns :
    (r \in RunIds /\ Orphaned(r))
      ~> (r \in RunIds /\ Closed(r) /\ runs[r].emailStatus.failureReason = <<"abandoned">>)

C14_WindowFollowsPolicy ==
  \A p \in 1..Len(polls) :
    (polls[p].run # 0 /\ exec[polls[p].run].endDate # Null) =>
      LET mc == Snapshot(p).doc
          startDate == exec[polls[p].run].startDate
          endDate == exec[polls[p].run].endDate
      IN IF mc.windowType = "since_last_run"
           THEN /\ endDate <= clock
                /\ startDate = IF mc.schedule.lastRunAt # Null
                                 THEN mc.schedule.lastRunAt ELSE endDate - MS_PER_DAY
           ELSE <<startDate, endDate>> = mc.dateRange

\* C15: a run whose pull-request listing was refused by the host ends as a
\* failed run, the repository is marked token_error, and the schedule is advanced.
C15_AuthErrorIsFatal ==
  \A r \in TickRuns :
    (exec[r].fetchError /\ exec[r].finished) =>
      /\ runs[r].emailStatus.status = "failed"
      /\ repos[RepoOf(exec[r].mc)] = "token_error"
      /\ mcs[exec[r].mc].schedule.lastRunAt # Null

\* C16: whichever creations, reactivations, schedule edits and completed runs
\* have happened, an entry's nextRunAt is null or strictly later than its
\* lastRunAt (an entry that has never run has no lastRunAt to compare with).
C16_NextAfterLast ==
  \A i \in DOMAIN mcs :
    \/ mcs[i].schedule.nextRunAt = Null
    \/ mcs[i].schedule.lastRunAt = Null
    \/ mcs[i].schedule.nextRunAt > mcs[i].schedule.lastRunAt

\* a run of the tick loop has completed after a schedule edit or reactivation
\* and the entry carries both dates
C16_Witness ==
  \E r \in TickRuns :
    /\ exec[r].finished
    /\ apiCalls.routes > 0
    /\ mcs[exec[r].mc].schedule.lastRunAt # Null
    /\ mcs[exec[r].mc].schedule.nextRunAt # Null

\* C17: for a one_time schedule the calculator returns the configured date
\* when one is supplied and is after now, and null in every other case.
C17_OneTimeDateOrNull ==
  \A i \in DOMAIN mcs :
    mcs[i].schedule.type = "one_time" =>
      mcs[i].schedule.nextRunAt =
        IF mcs[i].schedule.config.date # Null /\ mcs[i].schedule.config.date > clock
          THEN mcs[i].schedule.config.date
          ELSE Null

\* C18: the due list a tick works through is in ascending order of nextRunAt,
\* so the runs of one tick start in that order.
C18_DueListAscending ==
  \A p \in 1..Len(polls) :
    \A a, b \in DOMAIN polls[p].dueItems :
      a < b => polls[p].dueItems[a].doc.schedule.nextRunAt
                 <= polls[p].dueItems[b].doc.schedule.nextRunAt

WantedMinute(schedule) == schedule.time.hours * 60 + schedule.time.minutes
ZoneOffsets(tz) == { TzOffsetMinutes(tz, t) : t \in {0, FallBackAt, SpringForwardAt} }
\* some instant shows wall-clock minute m on calendar day `day` in zone tz
WallClockExists(day, m, tz) ==
  \E off \in ZoneOffsets(tz) :
    LET u == DayStart(day) + (m - off) * MS_PER_MINUTE
    IN LocalDay(u, tz) = day /\ LocalMinuteOfDay(u, tz) = m

Count(seq, x) == Cardinality({ j \in 1..Len(seq) : seq[j] = x })

NotDelivered(r) ==
  /\ exec[r].finished /\ ~exec[r].threw
  /\ \/ ~exec[r].hasActivity
     \/ exec[r].aiSummary = "null"
     \/ mcs[exec[r].mc].recipients = {}

\* C21: a run that does not deliver for a reason other than quota records
\* skipped with the first reason that applies of "No activity" (then the LLM
\* was not called and the summary is null), "AI summary generation failed",
\* "No recipients configured"; the deliver stage was not called and the
\* schedule was advanced.
C21_SkipReasonOrder ==
  \A r \in TickRuns :
    NotDelivered(r) =>
      /\ runs[r].emailStatus.status = "skipped"
      /\ runs[r].emailStatus.failureReason =
           IF ~exec[r].hasActivity THEN <<"No activity">>
           ELSE IF exec[r].aiSummary = "null" THEN <<"AI summary generation failed">>
           ELSE <<"No recipients configured">>
      /\ ~exec[r].hasActivity => (~exec[r].aiCalled /\ runs[r].aiSummary = "null")
      /\ ~exec[r].sendCalled
      /\ exec[r].advAt # Null

\* a run with activity and a summary has closed as skipped for want of recipients
C21_Witness ==
  \E r \in TickRuns :
    /\ NotDelivered(r)
    /\ exec[r].hasActivity /\ exec[r].aiSummary # "null"
    /\ runs[r].emailStatus.failureReason = <<"No recipients configured">>
    /\ mcs[exec[r].mc].schedule.lastRunAt # Null

Retryable(status) == status = 429 \/ (status >= 500 /\ status < 600)

\* C22: one summary costs at most 3 requests to the LLM: a request is repeated
\* only after a 429 or 5xx answer, any other error ends the stage at once, and
\* the stage returns no summary once the third attempt has failed.
C22_AtMostThreeRequests ==
  \A c \in DOMAIN llm :
    LET n == Len(llm[c].attempts)
    IN /\ n <= 3
       /\ \A k \in 1..(n - 1) : Retryable(llm[c].attempts[k])
       /\ llm[c].summary = "null" <=> llm[c].attempts[n] # 200
       /\ Retryable(llm[c].attempts[n]) => n = 3

Stopped == timers # <<>> /\ intervalHandle = Null

\* C24: after stopScheduler no further tick begins, whatever sequence of
\* startScheduler and stopScheduler calls came before: while the loop is
\* stopped a new poll() can only come from a new startScheduler.
C24_NoTickAfterStop ==
  [][(Stopped /\ Len(polls') > Len(polls)) => intervalHandle' # Null]_vars

\* the run of the same entry that began last before run r
PreviousRun(r) ==
  LET earlier == { q \in TickRuns : q < r /\ exec[q].mc = exec[r].mc }
  IN IF earlier = {} THEN 0 ELSE CHOOSE q \in earlier : \A o \in earlier : o <= q

\* C25: under policy since_last_run the windows of consecutive runs of an
\* entry leave no gap: a run's window starts no later than the end of the
\* window of the entry's previous run.
C25_WindowsLeaveNoGap ==
  \A r \in TickRuns :
    LET q == PreviousRun(r)
    IN (q # 0 /\ exec[q].endDate # Null /\ exec[r].startDate # Null
          /\ mcs[exec[r].mc].windowType = "since_last_run")
         => exec[r].startDate <= exec[q].endDate

\* C26: a schedule edit of an active entry through the API keeps the entry
\* schedulable: the stored schedule still has isActive = true and a non-null
\* nextRunAt.
C26_EditKeepsSchedulable ==
  [][\A i \in DOMAIN mcs :
       (/\ mcs[i].status = "active" /\ mcs'[i].status = "active"
        /\ apiCalls'.routes > apiCalls.routes
        /\ mcs'[i].schedule # mcs[i].schedule)
         => (mcs'[i].schedule.isActive /\ mcs'[i].schedule.nextRunAt # Null)]_vars

\* C27: adding monitoring for a login never modifies the entry of a different
\* login on the repository.
C27_OtherUsersEntryUntouched ==
  [][\A githubUsername \in Usernames, body \in ScheduleInputs :
       AddMonitoring(githubUsername, body) =>
         \A i \in DOMAIN mcs :
           mcs[i].githubUsername # githubUsername => mcs'[i] = mcs[i]]_vars

C30_CompletionKeepsApiChange ==
  [][\A r \in TickRuns :
       (~exec[r].finished /\ exec'[r].finished) =>
         LET m == exec[r].mc
         IN /\ mcs'[m].schedule.nextRunAt = calculateNextRunAt(mcs[m].schedule, clock)
            /\ mcs'[m].status = mcs[m].status]_vars
====
